---- MODULE Spec2Model ----
(***************************************************************************)
(* Merkle-Hellman knapsack cryptosystem of src/main.py (KnapsackCrypto):   *)
(* key generation, encryption of text over the 27-symbol alphabet, and     *)
(* decryption by trapdoor inversion and greedy subset sum.                 *)
(*                                                                         *)
(* Strings are sequences of one-character strings; bit strings are         *)
(* sequences of "0" and "1".                                               *)
(***************************************************************************)
EXTENDS Integers, Sequences, FiniteSets, TLC

\* ------------------------------------------------------------------ bounds

\* The block sizes n passed to generate_keys.
BlockSizes == {1, 2, 3, 4, 5}
\* Width of the range the next superincreasing value is drawn from.
\* (random.randint(current_sum + 1, current_sum + 100) in the source.)
StepWidth == 2
\* Width of the range the modulus is drawn from.
\* (random.randint(total_sum + 1, total_sum + 500) in the source.)
ModulusWidth == 1
\* Largest multiplier the model draws from [2, q - 1].
MaxR == 7
\* Longest plaintext handed to encrypt.
MaxLen == 2

\* Characters a plaintext is built from: space, an upper-case letter, a
\* lower-case letter and a character outside the alphabet.
InputChars == {" ", "Z", "k", "!"}

\* --------------------------------------------------------------- alphabet

Letters ==
  << "A", "B", "C", "D", "E", "F", "G", "H", "I", "J", "K", "L", "M",
     "N", "O", "P", "Q", "R", "S", "T", "U", "V", "W", "X", "Y", "Z" >>

Lowercase ==
  << "a", "b", "c", "d", "e", "f", "g", "h", "i", "j", "k", "l", "m",
     "n", "o", "p", "q", "r", "s", "t", "u", "v", "w", "x", "y", "z" >>

\* str.upper() on one character: a lower-case letter becomes its upper-case
\* form, every other character of the model is left as it is.
UpperChar(c) ==
  IF \E i \in 1..26 : Lowercase[i] = c
    THEN Letters[CHOOSE i \in 1..26 : Lowercase[i] = c]
    ELSE c

\* str.upper() on a string.
Upper(s) == [i \in 1..Len(s) |-> UpperChar(s[i])]

\* Mutant of InitAlphabet: a punctuation character slipped into the alphabet.
InitAlphabetWithBang == << " " >> \o Letters \o << "!" >>

\* self.alphabet = " " + "ABCDEFGHIJKLMNOPQRSTUVWXYZ"
InitAlphabet == << " " >> \o Letters

\* {char: i for i, char in enumerate(self.alphabet)}
InitCharToInt ==
  [c \in {InitAlphabet[i] : i \in 1..Len(InitAlphabet)} |->
     (CHOOSE i \in 1..Len(InitAlphabet) : InitAlphabet[i] = c) - 1]

\* {i: char for i, char in enumerate(self.alphabet)}
InitIntToChar == [i \in 0..(Len(InitAlphabet) - 1) |-> InitAlphabet[i + 1]]

\* ---------------------------------------------------------------- helpers

RECURSIVE Gcd(_, _)
\* math.gcd on non-negative integers (Euclid).
Gcd(a, b) == IF b = 0 THEN a ELSE Gcd(b, a % b)

RECURSIVE SumSeq(_)
SumSeq(s) == IF s = << >> THEN 0 ELSE s[1] + SumSeq(Tail(s))

\* '0' * k
Zeros(k) == [i \in 1..k |-> "0"]

RECURSIVE ToBinary(_)
\* The binary digits of v >= 0, most significant first, without leading zeros.
ToBinary(v) ==
  IF v < 2
    THEN << IF v = 1 THEN "1" ELSE "0" >>
    ELSE Append(ToBinary(v \div 2), IF v % 2 = 1 THEN "1" ELSE "0")

\* Mutant of Format05b: format(val, 'b'), the width forgotten.
FormatNoWidth(val) == ToBinary(val)

\* format(val, '05b'): the binary digits of val, zero-padded on the left to a
\* width of at least 5.
Format05b(val) ==
  LET digits == ToBinary(val)
  IN  IF Len(digits) < 5 THEN Zeros(5 - Len(digits)) \o digits ELSE digits

RECURSIVE BitsToIntReversed(_)
\* Mutant of BitsToInt: the chunk is read least significant bit first.
BitsToIntReversed(bits) ==
  IF bits = << >>
    THEN 0
    ELSE (IF bits[1] = "1" THEN 1 ELSE 0) + 2 * BitsToIntReversed(Tail(bits))

RECURSIVE BitsToInt(_)
\* int(chunk, 2) on a non-empty bit string.
BitsToInt(bits) ==
  IF bits = << >>
    THEN 0
    ELSE 2 * BitsToInt(SubSeq(bits, 1, Len(bits) - 1))
           + (IF bits[Len(bits)] = "1" THEN 1 ELSE 0)

RECURSIVE Concat(_)
\* The concatenation of a sequence of sequences, in order.
Concat(ss) == IF ss = << >> THEN << >> ELSE ss[1] \o Concat(Tail(ss))

\* Mutant of NumChunks: only the full chunks, the short last one dropped.
NumFullChunks(length, step) == length \div step

\* range(0, length, step) as the number of chunks it yields.
NumChunks(length, step) == (length + step - 1) \div step

\* s[i:i + step] for the k-th chunk (i = (k - 1) * step): the slice stops at
\* the end of s.
Chunk(s, k, step) ==
  SubSeq(s, (k - 1) * step + 1, IF k * step < Len(s) THEN k * step ELSE Len(s))

\* ------------------------------------------------------------------ state

VARIABLES
  alphabet,      \* self.alphabet
  char_to_int,   \* self.char_to_int
  int_to_char,   \* self.int_to_char
  block_size,    \* self.block_size
  pc,            \* position of the session
  w,             \* generate_keys: the superincreasing sequence so far
  current_sum,   \* _generate_superincreasing: running sum of w
  q,             \* generate_keys: modulus (0 before it is drawn)
  r,             \* generate_keys: multiplier (0 before it is drawn)
  public_key,    \* returned by generate_keys
  private_key,   \* returned by generate_keys: <<w, q, r>>
  plaintext,     \* argument of encrypt
  ciphertext,    \* returned by encrypt / argument of decrypt
  decrypted,     \* returned by decrypt
  err,           \* the exception a call ended in, or NoError
  chunk,         \* encrypt: the n-bit chunk of the block at hand
  block_sum,     \* encrypt: the block of that chunk
  c_prime,       \* decrypt / subset_sum_problem: the recovered subset sum
  string_result  \* decrypt: the bits subset_sum_problem returned

vars ==
  << alphabet, char_to_int, int_to_char, block_size, pc, w, current_sum,
     q, r, public_key, private_key, plaintext, ciphertext, decrypted, err,
     chunk, block_sum, c_prime, string_result >>

fields == << alphabet, char_to_int, int_to_char >>
keygen_locals == << w, current_sum, q, r >>
keys == << public_key, private_key >>
texts == << plaintext, ciphertext, decrypted >>
block_locals == << chunk, block_sum, c_prime, string_result >>

NoError == "none"
ErrAlphabet == "ValueError: Plaintext contains characters not in the defined alphabet."
ErrCharacter == "ValueError: Invalid character found"
ErrEmptyRange == "ValueError: empty range for randrange()"
ErrNotInvertible == "ValueError: base is not invertible for the given modulus"
ErrKey == "KeyError"

\* The fields KnapsackCrypto.__init__ sets apart from block_size.
Constructed ==
  /\ alphabet = InitAlphabet
  /\ char_to_int = InitCharToInt
  /\ int_to_char = InitIntToChar

\* The block locals before any block is worked on.
NoBlock ==
  /\ chunk = << >>
  /\ block_sum = 0
  /\ c_prime = 0
  /\ string_result = << >>

\* KnapsackCrypto.__init__
Init ==
  /\ Constructed
  /\ block_size = 0
  /\ pc = "init"
  /\ w = << >>
  /\ current_sum = 0
  /\ q = 0
  /\ r = 0
  /\ public_key = << >>
  /\ private_key = << << >>, 0, 0 >>
  /\ plaintext = << >>
  /\ ciphertext = << >>
  /\ decrypted = << >>
  /\ err = NoError
  /\ NoBlock

\* --------------------------------------------------------- key generation

\* The outcomes of random.randint(lo, hi) the model draws.
Randint(lo, hi) == lo..hi

\* The outcomes of random.randint(2, q - 1) the model draws: the range of the
\* source, cut at MaxR.
RandintMultiplier(modulus) == {x \in Randint(2, modulus - 1) : x <= MaxR}

\* Mutant of Beta: the reduction modulo q forgotten.
BetaNoMod(ws, rr, qq) == [i \in 1..Len(ws) |-> ws[i] * rr]

\* beta = [(val * r) % q for val in w]
Beta(ws, rr, qq) == [i \in 1..Len(ws) |-> (ws[i] * rr) % qq]

\* generate_keys(n): self.block_size = n, and _generate_superincreasing
\* starts with w = [] and current_sum = 0.
GenerateKeys ==
  /\ pc = "init"
  /\ \E n \in BlockSizes : block_size' = n
  /\ w' = << >>
  /\ current_sum' = 0
  /\ pc' = "gen_w"
  /\ UNCHANGED << block_locals, fields, q, r, keys, texts, err >>

\* Mutant of AppendNext: the draw starts at current_sum, not current_sum + 1.
AppendNextFromSum ==
  /\ pc = "gen_w"
  /\ Len(w) < block_size
  /\ \E next_val \in Randint(current_sum, current_sum + StepWidth) :
       /\ w' = Append(w, next_val)
       /\ current_sum' = current_sum + next_val
  /\ UNCHANGED << block_locals, fields, block_size, pc, q, r, keys, texts, err >>

\* One pass of the loop of _generate_superincreasing.
AppendNext ==
  /\ pc = "gen_w"
  /\ Len(w) < block_size
  /\ \E next_val \in Randint(current_sum + 1, current_sum + StepWidth) :
       /\ w' = Append(w, next_val)
       /\ current_sum' = current_sum + next_val
  /\ UNCHANGED << block_locals, fields, block_size, pc, q, r, keys, texts, err >>

\* _generate_superincreasing returns (w, current_sum); q is drawn.
ChooseModulus ==
  /\ pc = "gen_w"
  /\ Len(w) = block_size
  /\ \E modulus \in Randint(current_sum + 1, current_sum + ModulusWidth) :
       q' = modulus
  /\ pc' = "draw_r"
  /\ UNCHANGED << block_locals, fields, block_size, w, current_sum, r, keys, texts, err >>

\* r = random.randint(2, q - 1): raises ValueError on an empty range.
DrawMultiplier ==
  /\ pc = "draw_r"
  /\ IF Randint(2, q - 1) = {}
       THEN /\ pc' = "keygen_error"
            /\ err' = ErrEmptyRange
            /\ r' = r
       ELSE /\ \E x \in RandintMultiplier(q) : r' = x
            /\ pc' = "check_r"
            /\ err' = err
  /\ UNCHANGED << block_locals, fields, block_size, w, current_sum, q, keys, texts >>

\* while math.gcd(r, q) != 1: r = random.randint(2, q - 1)
RedrawMultiplier ==
  /\ pc = "check_r"
  /\ Gcd(r, q) # 1
  /\ \E x \in RandintMultiplier(q) : r' = x
  /\ UNCHANGED << block_locals, fields, block_size, pc, w, current_sum, q, keys, texts, err >>

\* The loop exits; beta is computed and both keys are returned.
ReturnKeys ==
  /\ pc = "check_r"
  /\ Gcd(r, q) = 1
  /\ public_key' = Beta(w, r, q)
  /\ private_key' = << w, q, r >>
  /\ pc' = "keys"
  /\ UNCHANGED << block_locals, fields, block_size, keygen_locals, texts, err >>

\* ------------------------------------------------------------- encryption

\* The check of encrypt: all(c in self.alphabet for c in plaintext.upper()).
\* (For a single character, membership in the string is membership among its
\* characters.)
InAlphabet(text) ==
  \A i \in 1..Len(text) :
    \E j \in 1..Len(alphabet) : alphabet[j] = Upper(text)[i]

\* _text_to_bits raises ValueError: some upper-cased character is not a key
\* of char_to_int.
TextToBitsRaises(text) ==
  \E i \in 1..Len(text) : Upper(text)[i] \notin DOMAIN char_to_int

\* _text_to_bits when it does not raise: the 5-bit codes, concatenated.
text_to_bits(text) ==
  Concat([i \in 1..Len(text) |-> Format05b(char_to_int[Upper(text)[i]])])

\* Mutant of PadBits: the padding is '1', not '0'.
PadBitsOnes(bit_string, n) ==
  LET remainder == Len(bit_string) % n
  IN  IF remainder # 0
        THEN bit_string \o [i \in 1..(n - remainder) |-> "1"]
        ELSE bit_string

\* Step 3 of encrypt: pad with '0' to a multiple of n.
PadBits(bit_string, n) ==
  LET remainder == Len(bit_string) % n
  IN  IF remainder # 0
        THEN bit_string \o Zeros(n - remainder)
        ELSE bit_string

RECURSIVE DotFrom(_, _, _)
\* The sum of key[bit_index] over the positions bit_index >= i with a '1'.
DotFrom(bits, key, i) ==
  IF i > Len(bits)
    THEN 0
    ELSE (IF bits[i] = "1" THEN key[i] ELSE 0) + DotFrom(bits, key, i + 1)

\* Mutant of BlockSum: the key values of the '0' bits are summed.
BlockSumZeros(bits, key) ==
  DotFrom([i \in 1..Len(bits) |-> IF bits[i] = "0" THEN "1" ELSE "0"], key, 1)

\* The block of one chunk: sum(bit * public_key_val).
BlockSum(bits, key) == DotFrom(bits, key, 1)

\* Step 4 of encrypt: one block per chunk of n bits.
EncryptBlocks(bit_string, key) ==
  LET n == Len(key)
  IN  [k \in 1..NumChunks(Len(bit_string), n) |->
         BlockSum(Chunk(bit_string, k, n), key)]

\* encrypt(plaintext, public_key) when no check fails.
encrypt(text, key) == EncryptBlocks(PadBits(text_to_bits(text), Len(key)), key)

\* ------------------------------------------------------------- decryption

RECURSIVE SubsetSumFrom(_, _, _)
\* The loop of subset_sum_problem over w[i], w[i-1], ..., w[1], each bit put
\* in front of the bits of the larger elements.
SubsetSumFrom(ws, i, target) ==
  IF i = 0
    THEN << >>
    ELSE IF target - ws[i] >= 0
           THEN Append(SubsetSumFrom(ws, i - 1, target - ws[i]), "1")
           ELSE Append(SubsetSumFrom(ws, i - 1, target), "0")

RECURSIVE SubsetSumStrictFrom(_, _, _)
\* The loop of SubsetSumStrict.
SubsetSumStrictFrom(ws, i, target) ==
  IF i = 0
    THEN << >>
    ELSE IF target - ws[i] > 0
           THEN Append(SubsetSumStrictFrom(ws, i - 1, target - ws[i]), "1")
           ELSE Append(SubsetSumStrictFrom(ws, i - 1, target), "0")

\* Mutant of subset_sum_problem: the test is c_prime - w_element > 0.
SubsetSumStrict(ws, target) == SubsetSumStrictFrom(ws, Len(ws), target)

\* subset_sum_problem(w, c_prime)
subset_sum_problem(ws, target) == SubsetSumFrom(ws, Len(ws), target)

\* pow(r, -1, q) raises ValueError unless some x has r * x = 1 (mod q).
Invertible(rr, qq) == \E x \in 0..(qq - 1) : (rr * x) % qq = 1 % qq

\* pow(r, -1, q) for q >= 1: the inverse of r modulo q in [0, q).
PowInverse(rr, qq) == CHOOSE x \in 0..(qq - 1) : (rr * x) % qq = 1 % qq

\* Mutant of CPrime: the reduction modulo q forgotten.
CPrimeNoMod(ciphertext_block, r_prime, qq) == ciphertext_block * r_prime

\* c_prime = (ciphertext_block * r_prime) % q
CPrime(ciphertext_block, r_prime, qq) == (ciphertext_block * r_prime) % qq

\* The bit string decrypt rebuilds from the blocks.
DecryptBits(blocks, key) ==
  LET r_prime == PowInverse(key[3], key[2])
  IN  Concat([k \in 1..Len(blocks) |->
                subset_sum_problem(key[1], CPrime(blocks[k], r_prime, key[2]))])

\* The integers of the 5-bit chunks of the bit string.
ChunkIntegers(bit_string) ==
  [k \in 1..NumChunks(Len(bit_string), 5) |-> BitsToInt(Chunk(bit_string, k, 5))]

\* self.int_to_char[chunk_integer] raises KeyError for some chunk.
LookupRaises(bit_string) ==
  \E k \in 1..NumChunks(Len(bit_string), 5) :
    ChunkIntegers(bit_string)[k] \notin DOMAIN int_to_char

\* The characters of the chunks, when every lookup succeeds.
BitsToText(bit_string) ==
  [k \in 1..NumChunks(Len(bit_string), 5) |->
     int_to_char[ChunkIntegers(bit_string)[k]]]

\* ---------------------------------------------------------------- session

\* The plaintexts the model hands to encrypt.
Plaintexts == UNION {[1..k -> InputChars] : k \in 0..MaxLen}

\* encrypt(plaintext, public_key) with the public key generate_keys returned.
Encrypt ==
  /\ pc = "keys"
  /\ \E text \in Plaintexts :
       /\ plaintext' = text
       /\ IF ~InAlphabet(text)
            THEN /\ err' = ErrAlphabet
                 /\ pc' = "encrypt_error"
                 /\ ciphertext' = ciphertext
            ELSE IF TextToBitsRaises(text)
                   THEN /\ err' = ErrCharacter
                        /\ pc' = "encrypt_error"
                        /\ ciphertext' = ciphertext
                   ELSE /\ ciphertext' = encrypt(text, public_key)
                        /\ pc' = "encrypted"
                        /\ err' = err
  /\ UNCHANGED << block_locals, fields, block_size, keygen_locals, keys, decrypted >>

\* decrypt(ciphertext, private_key)
Decrypt ==
  /\ pc = "encrypted"
  /\ IF ~Invertible(private_key[3], private_key[2])
       THEN /\ err' = ErrNotInvertible
            /\ pc' = "decrypt_error"
            /\ decrypted' = decrypted
       ELSE LET bit_string == DecryptBits(ciphertext, private_key)
            IN  IF LookupRaises(bit_string)
                  THEN /\ err' = ErrKey
                       /\ pc' = "decrypt_error"
                       /\ decrypted' = decrypted
                  ELSE /\ decrypted' = BitsToText(bit_string)
                       /\ pc' = "decrypted"
                       /\ err' = err
  /\ UNCHANGED << block_locals, fields, block_size, keygen_locals, keys, plaintext, ciphertext >>

Next ==
  \/ GenerateKeys
  \/ AppendNext
  \/ ChooseModulus
  \/ DrawMultiplier
  \/ RedrawMultiplier
  \/ ReturnKeys
  \/ Encrypt
  \/ Decrypt

Spec == Init /\ [][Next]_vars

\* ------------------------------------------------------- one block at a time

\* The lengths of the keys of the block specification.
BlockLens == {1, 2, 3, 4}

RECURSIVE SuperSeqs(_)
\* The sequences _generate_superincreasing(n) can return within StepWidth.
SuperSeqs(n) ==
  IF n = 0
    THEN {<< >>}
    ELSE UNION {{Append(s, v) :
                   v \in Randint(SumSeq(s) + 1, SumSeq(s) + StepWidth)} :
                s \in SuperSeqs(n - 1)}

\* The private keys generate_keys(n) can return within the widths, with every
\* multiplier of [2, q - 1] coprime to q.
GeneratedKeys(n) ==
  UNION {UNION {{<< ws, qq, rr >> :
                   rr \in {x \in Randint(2, qq - 1) : Gcd(x, qq) = 1}} :
                qq \in Randint(SumSeq(ws) + 1, SumSeq(ws) + ModulusWidth)} :
         ws \in SuperSeqs(n)}

\* The private key of the worked example: w = [2, 3, 6, 13, 27], q = 59,
\* r = 31.
ScenarioKey == << << 2, 3, 6, 13, 27 >>, 59, 31 >>

\* The bit strings of length n.
BitStrings(n) == [1..n -> {"0", "1"}]

\* A key pair as generate_keys returned it, and one chunk of n bits.
InitBlock ==
  /\ Constructed
  /\ private_key \in UNION {GeneratedKeys(n) : n \in BlockLens} \cup {ScenarioKey}
  /\ w = private_key[1]
  /\ q = private_key[2]
  /\ r = private_key[3]
  /\ current_sum = SumSeq(w)
  /\ block_size = Len(w)
  /\ public_key = Beta(w, r, q)
  /\ chunk \in BitStrings(Len(w))
  /\ block_sum = 0
  /\ c_prime = 0
  /\ string_result = << >>
  /\ plaintext = << >>
  /\ ciphertext = << >>
  /\ decrypted = << >>
  /\ err = NoError
  /\ pc = "block"

\* encrypt, one pass of the loop over the chunks: the block of the chunk.
EncryptChunk ==
  /\ pc = "block"
  /\ block_sum' = BlockSum(chunk, public_key)
  /\ pc' = "summed"
  /\ UNCHANGED << fields, block_size, keygen_locals, keys, texts, err,
                  chunk, c_prime, string_result >>

\* decrypt, one pass of the loop over the blocks: c_prime of the block.
RecoverSum ==
  /\ pc = "summed"
  /\ c_prime' = CPrime(block_sum, PowInverse(private_key[3], private_key[2]),
                       private_key[2])
  /\ pc' = "recovered"
  /\ UNCHANGED << fields, block_size, keygen_locals, keys, texts, err,
                  chunk, block_sum, string_result >>

\* decrypt, the same pass: the bits of c_prime.
SolveBlock ==
  /\ pc = "recovered"
  /\ string_result' = subset_sum_problem(private_key[1], c_prime)
  /\ pc' = "solved"
  /\ UNCHANGED << fields, block_size, keygen_locals, keys, texts, err,
                  chunk, block_sum, c_prime >>

\* subset_sum_problem(w, c_prime) called with the subset sum of w that the
\* chunk selects.
SubsetSumCall ==
  /\ pc = "block"
  /\ c_prime' = BlockSum(chunk, private_key[1])
  /\ string_result' = subset_sum_problem(private_key[1], c_prime')
  /\ pc' = "subset_sum_returned"
  /\ UNCHANGED << fields, block_size, keygen_locals, keys, texts, err,
                  chunk, block_sum >>

NextBlock ==
  \/ EncryptChunk
  \/ RecoverSum
  \/ SolveBlock
  \/ SubsetSumCall

SpecBlock == InitBlock /\ [][NextBlock]_vars

\* ------------------------------------------- whole characters per block

\* The block sizes of the round-trip specification: multiples of 5.
RoundSizes == {5, 10}

RECURSIVE TwoPhaseSeq(_, _, _, _)
\* The first k entries of the sequence _generate_superincreasing(n) returns
\* when the draws of the first half are current_sum + a and those of the
\* second half current_sum + b.
TwoPhaseSeq(n, k, a, b) ==
  IF k = 0
    THEN << >>
    ELSE LET s == TwoPhaseSeq(n, k - 1, a, b)
         IN  Append(s, SumSeq(s) + (IF 2 * k <= n THEN a ELSE b))

\* Private keys generate_keys(n) can return: the draws of w at two offsets
\* within StepWidth, q within ModulusWidth, and r coprime to q among the MaxR
\* smallest and the MaxR largest values of [2, q - 1].
RoundKeys(n) ==
  UNION {UNION {{<< ws, qq, rr >> :
                   rr \in {x \in Randint(2, qq - 1) :
                             /\ x <= MaxR + 1 \/ x >= qq - MaxR
                             /\ Gcd(x, qq) = 1}} :
                qq \in Randint(SumSeq(ws) + 1, SumSeq(ws) + ModulusWidth)} :
         ws \in {TwoPhaseSeq(n, n, a, b) : a, b \in 1..StepWidth}}

\* The state after generate_keys(n) returned, n a multiple of 5.
InitRound ==
  /\ Constructed
  /\ private_key \in UNION {RoundKeys(n) : n \in RoundSizes}
  /\ w = private_key[1]
  /\ q = private_key[2]
  /\ r = private_key[3]
  /\ current_sum = SumSeq(w)
  /\ block_size = Len(w)
  /\ public_key = Beta(w, r, q)
  /\ plaintext = << >>
  /\ ciphertext = << >>
  /\ decrypted = << >>
  /\ err = NoError
  /\ NoBlock
  /\ pc = "keys"

NextRound ==
  \/ Encrypt
  \/ Decrypt

SpecRound == InitRound /\ [][NextRound]_vars

\* ------------------------------------------------ decrypt on any arguments

\* Largest entry of the sequence w handed to decrypt.
MaxEntry == 2
\* Largest modulus handed to decrypt.
MaxModulus == 5
\* Largest ciphertext block handed to decrypt.
MaxBlock == 4
\* Longest ciphertext handed to decrypt.
MaxBlocks == 2

\* The lengths of the sequence w handed to decrypt.
AnyLens == {2, 3}

\* The private keys handed to decrypt: any sequence of positive integers, any
\* modulus q >= 1 and any multiplier r >= 0, coprime to q or not.
AnyKeys ==
  {<< ws, qq, rr >> :
     ws \in UNION {[1..n -> 1..MaxEntry] : n \in AnyLens},
     qq \in 1..MaxModulus,
     rr \in 0..MaxModulus}

\* The ciphertexts handed to decrypt: any sequence of non-negative integers.
AnyCiphertexts == UNION {[1..k -> 0..MaxBlock] : k \in 0..MaxBlocks}

\* A constructed object, and arguments of decrypt that no encrypt produced.
InitDecrypt ==
  /\ Constructed
  /\ block_size = 0
  /\ w = << >>
  /\ current_sum = 0
  /\ q = 0
  /\ r = 0
  /\ public_key = << >>
  /\ private_key \in AnyKeys
  /\ plaintext = << >>
  /\ ciphertext \in AnyCiphertexts
  /\ decrypted = << >>
  /\ err = NoError
  /\ NoBlock
  /\ pc = "encrypted"

NextDecrypt == Decrypt

SpecDecrypt == InitDecrypt /\ [][NextDecrypt]_vars

\* ----------------------------------------------------------------- claims

\* c is a character of the alphabet: space or A-Z.
ValidChar(c) == c = " " \/ \E i \in 1..26 : Letters[i] = c

\* text is made only of space and A-Z.
OnlyAlphabet(text) == \A i \in 1..Len(text) : ValidChar(text[i])

\* Some character of text, upper-cased, is not space or A-Z.
HasInvalidChar(text) == \E i \in 1..Len(text) : ~ValidChar(UpperChar(text[i]))

\* result is text followed by space characters only.
PaddedWithSpaces(result, text) ==
  /\ Len(result) >= Len(text)
  /\ \A i \in 1..Len(text) : result[i] = text[i]
  /\ \A i \in (Len(text) + 1)..Len(result) : result[i] = " "

\* The sum of key[i] over the positions i where bits has a '1'.
SelectedSum(bits, key) ==
  SumSeq([i \in 1..Len(bits) |-> IF bits[i] = "1" THEN key[i] ELSE 0])

\* generate_keys has returned a key pair.
KeysReturned ==
  pc \in {"keys", "encrypted", "encrypt_error", "decrypted", "decrypt_error"}

\* C1: with n a positive multiple of 5 and a plaintext of space and A-Z only,
\* encrypt and decrypt under a generated key pair both return, and the
\* decrypted text is the plaintext followed by space characters only, of a
\* length that is a multiple of n/5.
C1_RoundTrip ==
  (block_size > 0 /\ block_size % 5 = 0 /\ OnlyAlphabet(plaintext)) =>
    /\ pc \notin {"encrypt_error", "decrypt_error"}
    /\ pc = "decrypted" =>
         /\ PaddedWithSpaces(decrypted, plaintext)
         /\ Len(decrypted) % (block_size \div 5) = 0

C1_Witness ==
  /\ pc = "decrypted"
  /\ block_size = 10
  /\ plaintext = << "Z" >>
  /\ decrypted = << "Z", " " >>

\* C2: an encrypt call whose plaintext has a character that, upper-cased, is
\* not space or A-Z ends in the invalid-character ValueError, returns no
\* ciphertext, and leaves the alphabet tables and block_size as they were.
C2_RejectBadInput ==
  [][(pc = "keys" /\ pc' # "keys" /\ HasInvalidChar(plaintext')) =>
       /\ pc' = "encrypt_error"
       /\ err' \in {ErrAlphabet, ErrCharacter}
       /\ ciphertext' = << >>
       /\ ciphertext' = ciphertext
       /\ alphabet' = alphabet
       /\ char_to_int' = char_to_int
       /\ int_to_char' = int_to_char
       /\ block_size' = block_size]_vars

C2_Witness ==
  /\ pc = "encrypt_error"
  /\ plaintext = << "k", "!" >>
  /\ err = ErrAlphabet

\* C3: generate_keys never ends in an error: whenever the multiplier is about
\* to be drawn, [2, q - 1] is non-empty and holds a value coprime to q.
C3_NoErrorPath ==
  /\ pc # "keygen_error"
  /\ pc = "draw_r" => \E x \in 2..(q - 1) : Gcd(x, q) = 1

\* C4: for a generated key pair and any chunk b of n bits, the block is the
\* sum of beta[i] over the '1' bits, and c_prime, the block times the inverse
\* of r modulo q, is the sum of w[i] over the '1' bits.
C4_Trapdoor ==
  pc \in {"recovered", "solved"} =>
    /\ block_sum = SelectedSum(chunk, public_key)
    /\ c_prime = SelectedSum(chunk, private_key[1])

C4_Witness ==
  /\ pc = "recovered"
  /\ block_sum >= private_key[2]
  /\ Len(chunk) = 4
  /\ chunk[1] = "1" /\ chunk[4] = "1"
  /\ private_key[3] > 2

\* C5: for a superincreasing w and a target that is a subset sum of w,
\* subset_sum_problem returns |w| bits whose selected elements of w sum to the
\* target, and no other bit string of that length does.
C5_SubsetSum ==
  pc = "subset_sum_returned" =>
    /\ Len(string_result) = Len(private_key[1])
    /\ SelectedSum(string_result, private_key[1]) = c_prime
    /\ \A b \in BitStrings(Len(private_key[1])) :
         SelectedSum(b, private_key[1]) = c_prime => b = string_result

C5_Witness ==
  /\ pc = "subset_sum_returned"
  /\ Len(private_key[1]) = 4
  /\ string_result = << "1", "0", "1", "0" >>
  /\ c_prime = private_key[1][1] + private_key[1][3]

\* C6: a private key (w, q, r) returned by generate_keys(n) has |w| = n, every
\* w[i] positive and above the sum of the entries before it, q > sum(w),
\* r in [2, q - 1] and gcd(q, r) = 1.
C6_PrivateKey ==
  KeysReturned =>
    LET ws == private_key[1]
        qq == private_key[2]
        rr == private_key[3]
    IN  /\ Len(ws) = block_size
        /\ \A i \in 1..Len(ws) :
             ws[i] > 0 /\ ws[i] > SumSeq(SubSeq(ws, 1, i - 1))
        /\ qq > SumSeq(ws)
        /\ rr \in 2..(qq - 1)
        /\ Gcd(qq, rr) = 1

C6_Witness ==
  /\ pc = "keys"
  /\ block_size = 5
  /\ private_key[1][1] = 2
  /\ private_key[3] > 2

\* C7: the public key returned by generate_keys(n) has the length n of the
\* private sequence, and every entry is (w[i] * r) mod q, in [0, q).
C7_PublicKey ==
  KeysReturned =>
    LET ws == private_key[1]
        qq == private_key[2]
        rr == private_key[3]
    IN  /\ Len(public_key) = Len(ws)
        /\ Len(public_key) = block_size
        /\ \A i \in 1..Len(public_key) :
             /\ public_key[i] = (ws[i] * rr) % qq
             /\ public_key[i] >= 0
             /\ public_key[i] < qq

C7_Witness ==
  /\ pc = "keys"
  /\ block_size >= 3
  /\ \E i \in 1..Len(public_key) :
       private_key[1][i] * private_key[3] >= private_key[2]

\* The chunk 10101 of the worked example.
ScenarioChunk == << "1", "0", "1", "0", "1" >>

\* C8, as amended: with w = [2, 3, 6, 13, 27], q = 59, r = 31 the public key
\* is [3, 34, 9, 49, 11]; the chunk 10101 encrypts to the block 3 + 9 + 11 =
\* 23; and decrypting the block 23 recovers the bits 10101.
C8_Scenario ==
  (private_key = ScenarioKey /\ chunk = ScenarioChunk /\ pc = "solved") =>
    /\ public_key = << 3, 34, 9, 49, 11 >>
    /\ block_sum = 23
    /\ string_result = ScenarioChunk

\* C8, as stated: the public key is [4, 34, 9, 53, 47], the chunk 10101
\* encrypts to the block 60, and decrypting the block 60 recovers 10101.
C8_AsStated ==
  (private_key = ScenarioKey /\ chunk = ScenarioChunk /\ pc = "solved") =>
    /\ public_key = << 4, 34, 9, 53, 47 >>
    /\ block_sum = 60
    /\ subset_sum_problem(private_key[1],
                          CPrime(60, PowInverse(31, 59), 59)) = ScenarioChunk

C8_Witness ==
  /\ private_key = ScenarioKey
  /\ chunk = ScenarioChunk
  /\ pc = "solved"

\* C9, as amended: decrypt validates nothing, and for a ciphertext of
\* non-negative integers and a private key (w, q, r) with q >= 1 it ends in
\* ValueError when gcd(r, q) # 1; when gcd(r, q) = 1 it either returns a
\* string of ceil(|ciphertext| * |w| / 5) characters of the alphabet, or ends
\* in KeyError, which takes at least 5 recovered bits.
C9_Decrypt ==
  pc # "encrypted" =>
    LET nbits == Len(ciphertext) * Len(private_key[1])
    IN  IF Gcd(private_key[3], private_key[2]) # 1
          THEN /\ pc = "decrypt_error"
               /\ err = ErrNotInvertible
               /\ decrypted = << >>
          ELSE \/ /\ pc = "decrypted"
                  /\ err = NoError
                  /\ Len(decrypted) * 5 >= nbits
                  /\ Len(decrypted) * 5 < nbits + 5
                  /\ \A i \in 1..Len(decrypted) : ValidChar(decrypted[i])
               \/ /\ pc = "decrypt_error"
                  /\ err = ErrKey
                  /\ nbits >= 5
                  /\ decrypted = << >>

\* C9, as stated: decrypt never ends in an error, whatever the ciphertext and
\* the private key.
C9_AsStated == pc # "decrypt_error"

C9_Witness ==
  /\ pc = "decrypted"
  /\ Gcd(private_key[3], private_key[2]) = 1
  /\ Len(private_key[1]) = 3
  /\ Len(ciphertext) = 2
  /\ decrypted # << " ", " " >>

\* C10: for every block size, a multiple of 5 or not, a plaintext whose
\* upper-cased characters are all space or A-Z encrypts and decrypts without
\* an error, and the decrypted text is the upper-cased plaintext followed by
\* space characters only.
C10_AnyBlockSize ==
  /\ pc # "decrypt_error"
  /\ pc = "encrypt_error" => HasInvalidChar(plaintext)
  /\ pc = "decrypted" => PaddedWithSpaces(decrypted, Upper(plaintext))

C10_Witness ==
  /\ pc = "decrypted"
  /\ block_size = 3
  /\ plaintext = << "k" >>
  /\ decrypted = << "K", " " >>

====
